---- MODULE Spec2Model ----
(***************************************************************************)
(* GlyphCache of src/src/glyph_cache.rs: a map from (pixel size, char) to  *)
(* (offset, advance, texture), filled lazily by `character`, read without  *)
(* filling by `opt_character`, and filled in bulk by the preload_* calls.  *)
(*                                                                         *)
(* A value that is used more than once is bound with x \in {e}, which      *)
(* evaluates e once; a table [x \in S |-> e] is written [..] @@ <<>>,      *)
(* which tabulates it once.                                                *)
(*                                                                         *)
(* Characters are code points.  Scalars (f64) are fixed-point numbers in   *)
(* units of 1/ScalarDen pixel; coverage values are k/CovDen.  The font is  *)
(* a deterministic test font (a stand-in for rusttype::Font) chosen when   *)
(* the cache is constructed.                                               *)
(*                                                                         *)
(* Spec      the operations on a cache made by from_font                   *)
(* SpecNew   the same, with the three constructors as the first step       *)
(* SpecDraw  the allocation and the writes of the bitmap of one miss, in   *)
(*           the 32-bit integers of the code                               *)
(***************************************************************************)
EXTENDS Integers, Sequences, FiniteSets, TLC

\* ---------------------------------------------------------------- bounds
MaxPoint == 2      \* small point sizes are 1..MaxPoint
MaxOps == 2        \* number of calls made on one cache
ScalarDen == 2     \* fixed-point denominator of a Scalar
CovDen == 2       \* denominator of a coverage value v = k/CovDen
MaxBox == 3        \* small pixel bounding boxes are at most MaxBox x MaxBox
ConvSpan == 8      \* the conversion is compared on runs of ConvSpan + 1 sizes

\* ------------------------------------------------------------- constants
F32_1_333 == 11182014   \* the f32 literal 1.333 is F32_1_333 * 2^-23
REPLACEMENT == 65533    \* '\u{FFFD}'
ASCII_FIRST == 32       \* 0x20
ASCII_END == 127        \* 0x7F (exclusive)
I32_MAX == 2147483647   \* i32::MAX, pixel_bb_width and pixel_bb_height are i32

VARIABLES font, data, requested, rasterLog, last, nops

vars == <<font, data, requested, rasterLog, last, nops>>

\* ------------------------------------------------ f32 arithmetic (l.107)
RECURSIVE BitLen(_)
BitLen(n) == IF n = 0 THEN 0 ELSE 1 + BitLen(n \div 2)

\* q + 1 when the discarded remainder r (out of 2*half) rounds up,
\* round-to-nearest, ties to even.
RoundTiesEven(q, r, half) ==
    IF r > half \/ (r = half /\ q % 2 = 1) THEN q + 1 ELSE q

U32AsF32Narrow(n) ==
    LET e == IF BitLen(n) > 11 THEN BitLen(n) - 11 ELSE 0
    IN  IF e = 0 THEN <<n, 0>>
        ELSE <<RoundTiesEven(n \div 2^e, n % 2^e, 2^(e - 1)), e>>

\* `size as f32`: <<m, e>> stands for m * 2^e with m <= 2^24.
U32AsF32(n) ==
    LET e == IF BitLen(n) > 24 THEN BitLen(n) - 24 ELSE 0
    IN  IF e = 0 THEN <<n, 0>>
        ELSE <<RoundTiesEven(n \div 2^e, n % 2^e, 2^(e - 1)), e>>

\* f32 product x * 1.333f32, correctly rounded to 24 significant bits.
\* The exact 48-bit product is kept as hi * 2^24 + lo.
F32Mul1333(x) ==
    LET m  == x[1]
        n1 == m \div 4096
        n0 == m % 4096
        m1 == F32_1_333 \div 4096
        m0 == F32_1_333 % 4096
        mid == n1 * m0 + n0 * m1
        lor == (mid % 4096) * 4096 + n0 * m0
        hi == n1 * m1 + mid \div 4096 + lor \div 16777216
        lo == lor % 16777216
        s  == BitLen(hi)
    IN  IF s = 0 THEN <<lo, x[2] - 23>>
        ELSE <<RoundTiesEven(hi * 2^(24 - s) + lo \div 2^s, lo % 2^s, 2^(s - 1)),
               x[2] + s - 23>>

\* f32::round: nearest integer, halves away from zero (x >= 0 here).
F32Round(x) ==
    IF x[2] >= 0 THEN x[1] * 2^(x[2])
    ELSE (x[1] + 2^(-x[2] - 1)) \div 2^(-x[2])

PointToPixelTrunc(size) ==
    LET x == F32Mul1333(U32AsF32(size))
    IN  IF x[2] >= 0 THEN x[1] * 2^(x[2]) ELSE x[1] \div 2^(-x[2])

\* ((size as f32) * 1.333).round() as u32.  Every size of the model stays
\* below 2^30, where the final saturating cast does not saturate.
PointToPixel(size) == F32Round(F32Mul1333(U32AsF32(size)))

\* --------------------------------------------------------- input domains
BigBase == 2^24    \* from here on `size as f32` is no longer exact
Points == (1..MaxPoint) \cup {BigBase, BigBase + 1}
Printable == ASCII_FIRST..(ASCII_END - 1)
UNMAPPED == REPLACEMENT - 1      \* a code point the test font has no glyph for
CharInputs == {ASCII_FIRST, ASCII_FIRST + 33, REPLACEMENT, UNMAPPED}
AsciiSizes == {1, 2}
PreloadInputs ==
    {<<>>, <<ASCII_FIRST + 33, UNMAPPED>>,
     <<UNMAPPED, ASCII_FIRST + 33, UNMAPPED, ASCII_END>>}
\* test fonts: .notdef with or without an outline, with or without a glyph
\* for U+FFFD (a font whose .notdef is drawn needs no replacement glyph)
Fonts == {f \in [notdefShape : BOOLEAN, hasRepl : BOOLEAN] :
             f.hasRepl \/ ~f.notdefShape}
Glyphs == 0..(ASCII_END - ASCII_FIRST + 1)

\* the conversion of every size of the model, computed once
PixelMemo == [p \in Points |-> PointToPixel(p)] @@ <<>>

\* the sizes and characters a key of the model can hold
KeySizes == Points \cup {PixelMemo[p] : p \in Points}
KeyChars == Printable \cup {ASCII_END, REPLACEMENT, UNMAPPED}

\* ------------------------------------- the font collaborator (rusttype)
\* font.glyph(ch).id(): printable ASCII has glyphs 1..95, U+FFFD has glyph
\* 96 when the font carries one, everything else is .notdef (glyph 0).
GlyphId(f, ch) ==
    IF ch \in Printable THEN ch - ASCII_FIRST + 1
    ELSE IF ch = REPLACEMENT /\ f.hasRepl THEN 96
    ELSE 0

\* glyph.shape().is_some(): space (glyph 1) has no outline, .notdef has one
\* only in some fonts.
HasShape(f, g) == IF g = 0 THEN f.notdefShape ELSE g # 1

\* glyph.h_metrics().advance_width at scale px, in 1/ScalarDen pixel.
AdvanceWidth(g, px) == (g % 3) + (px % 5) + 1

\* glyph.exact_bounding_box(): <<>> is None, <<r>> is Some(r); coordinates
\* in 1/ScalarDen pixel, y pointing up from the baseline.
ExactBoundingBox(f, g, px) ==
    IF ~HasShape(f, g) THEN <<>>
    ELSE LET w == 1 + ((g + px) % 2)
             h == 1 + (px % 2)
             x == (g % 3) - 1
         IN  <<[min |-> [x |-> x, y |-> -h * ScalarDen],
                max |-> [x |-> x + w * ScalarDen, y |-> 0]]>>

\* glyph.positioned((0,0)).pixel_bounding_box(): the exact box rounded
\* outwards to whole pixels (floor of min, ceiling of max).
PixelBoundingBox(f, g, px) ==
    IF ~HasShape(f, g) THEN <<>>
    ELSE LET e == ExactBoundingBox(f, g, px)[1]
         IN  <<[min |-> [x |-> e.min.x \div ScalarDen,
                         y |-> e.min.y \div ScalarDen],
                max |-> [x |-> -((-e.max.x) \div ScalarDen),
                         y |-> -((-e.max.y) \div ScalarDen)]]>>

RectWidth(r) == r.max.x - r.min.x
RectHeight(r) == r.max.y - r.min.y

\* glyph.draw(o): the calls o(x, y, v) it makes, v = k/CovDen; one call per
\* pixel of the pixel bounding box, none for a glyph without outline.
DrawCalls(f, g, px) ==
    IF PixelBoundingBox(f, g, px) = <<>> THEN {}
    ELSE LET bb == PixelBoundingBox(f, g, px)[1]
         IN  {<<x, y, (x + 2 * y + g) % (CovDen + 1)>> :
                 x \in 0..(RectWidth(bb) - 1), y \in 0..(RectHeight(bb) - 1)}

\* ------------------------------------------------- the texture sink
\* Texture::empty().unwrap()
TextureEmpty == [kind |-> "empty", width |-> 0, height |-> 0, memory |-> <<>>]

\* Texture::from_memory_alpha(&image_buffer, width, height, settings).unwrap()
TextureFromMemoryAlpha(buf, w, h) ==
    [kind |-> "alpha", width |-> w, height |-> h, memory |-> buf]

\* ------------------------------------------------ GlyphCache::character
CacheKeyRaw(size, ch) == <<size, ch>>

\* l.107-109: the key looked up is (converted size, requested char)
CacheKey(size, ch) == <<PixelMemo[size], ch>>

ResolveGlyphNoFallback(f, ch) == GlyphId(f, ch)

\* l.124-131: the glyph rasterized for ch, after the U+FFFD fallback
ResolveGlyph(f, ch) ==
    IF GlyphId(f, ch) = 0 /\ ~HasShape(f, GlyphId(f, ch))
    THEN GlyphId(f, REPLACEMENT)
    ELSE GlyphId(f, ch)

\* l.134-142: unwrap_or(all-zero rect)
ZeroRect == [min |-> [x |-> 0, y |-> 0], max |-> [x |-> 0, y |-> 0]]
UnwrapOrZero(opt) == IF opt = <<>> THEN ZeroRect ELSE opt[1]

DrawPosNoBorder(x, y, bbw) == x + y * bbw

\* l.149: index written by the draw callback
DrawPos(x, y, bbw) == (x + 1) + (y + 1) * bbw

\* l.150: (255.0 * v) as u8, v = k/CovDen
CoverageByte(k) == (255 * k) \div CovDen

\* l.146-151: the zeroed buffer after glyph.draw; entry i is image_buffer[i-1]
ImageBuffer(f, g, px, bbw, bbh) ==
    LET calls == DrawCalls(f, g, px)
    IN  [i \in 1..(bbw * bbh) |->
            IF \E c \in calls : DrawPos(c[1], c[2], bbw) = i - 1
            THEN CoverageByte((CHOOSE c \in calls : DrawPos(c[1], c[2], bbw) = i - 1)[3])
            ELSE 0]

GlyphRecordPixelOffset(f, g, px) ==
    LET pixel_bounding_box == UnwrapOrZero(PixelBoundingBox(f, g, px))
        pixel_bb_width == RectWidth(pixel_bounding_box) + 2
        pixel_bb_height == RectHeight(pixel_bounding_box) + 2
    IN  [offset |-> <<(pixel_bounding_box.min.x - 1) * ScalarDen,
                      (-pixel_bounding_box.min.y + 1) * ScalarDen>>,
         size |-> <<AdvanceWidth(g, px), 0>>,
         texture |-> TextureFromMemoryAlpha(
                         ImageBuffer(f, g, px, pixel_bb_width, pixel_bb_height),
                         pixel_bb_width, pixel_bb_height)]

\* l.133-167: the tuple stored for glyph g at scale px
GlyphRecord(f, g, px) ==
    LET bounding_box == UnwrapOrZero(ExactBoundingBox(f, g, px))
        pixel_bounding_box == UnwrapOrZero(PixelBoundingBox(f, g, px))
        pixel_bb_width == RectWidth(pixel_bounding_box) + 2
        pixel_bb_height == RectHeight(pixel_bounding_box) + 2
    IN  [offset |-> <<bounding_box.min.x - ScalarDen,
                      (-pixel_bounding_box.min.y + 1) * ScalarDen>>,
         size |-> <<AdvanceWidth(g, px), 0>>,
         texture |-> IF pixel_bb_width = 0 \/ pixel_bb_height = 0
                     THEN TextureEmpty
                     ELSE TextureFromMemoryAlpha(
                              ImageBuffer(f, g, px, pixel_bb_width, pixel_bb_height),
                              pixel_bb_width, pixel_bb_height)]

\* GlyphRecord for every glyph and size of the model, computed once
RecordMemo ==
    [f \in Fonts, g \in Glyphs, px \in KeySizes |-> GlyphRecord(f, g, px)] @@ <<>>

\* HashMap::with_hasher(fnv): a function from the keys that have an entry
EmptyMap == <<>>

InsertReplacing(d, key, rec) == key :> rec

\* l.153: VacantEntry::insert
Insert(d, key, rec) == d @@ (key :> rec)

OccupiedEvicting(f, d, key, ch) ==
    [data |-> key :> d[key], result |-> d[key], hit |-> TRUE, glyph |-> -1,
     bbw |-> -1, bbh |-> -1,
     glyphCalls |-> 0, draws |-> 0, uploads |-> 0, empties |-> 0,
     rasterized |-> <<>>]

\* l.111-120: Entry::Occupied, the stored tuple is returned, nothing is called
Occupied(f, d, key, ch) ==
    [data |-> d, result |-> d[key], hit |-> TRUE, glyph |-> -1,
     bbw |-> -1, bbh |-> -1,
     glyphCalls |-> 0, draws |-> 0, uploads |-> 0, empties |-> 0,
     rasterized |-> <<>>]

VacantSharingFallback(f, d, key, ch) ==
    CHOOSE r \in
        {[data |-> IF GlyphId(f, ch) = 0 /\ ~HasShape(f, 0)
                   THEN Insert(Insert(d, key, rec), <<key[1], REPLACEMENT>>, rec)
                   ELSE Insert(d, key, rec),
          result |-> rec, hit |-> FALSE,
          glyph |-> g, bbw |-> RectWidth(bb), bbh |-> RectHeight(bb),
          glyphCalls |-> IF GlyphId(f, ch) = 0 /\ ~HasShape(f, 0) THEN 2 ELSE 1,
          draws |-> 1,
          uploads |-> IF rec.texture.kind = "alpha" THEN 1 ELSE 0,
          empties |-> IF rec.texture.kind = "empty" THEN 1 ELSE 0,
          rasterized |-> <<key>>] :
            <<g, rec, bb>> \in
                {<<h, RecordMemo[f, h, key[1]],
                   UnwrapOrZero(PixelBoundingBox(f, h, key[1]))>> :
                    h \in {ResolveGlyph(f, ch)}}} : TRUE

\* l.121-173: Entry::Vacant, rasterize, upload, insert
Vacant(f, d, key, ch) ==
    CHOOSE r \in
        {[data |-> Insert(d, key, rec), result |-> rec, hit |-> FALSE,
          glyph |-> g, bbw |-> RectWidth(bb), bbh |-> RectHeight(bb),
          glyphCalls |-> IF GlyphId(f, ch) = 0 /\ ~HasShape(f, 0) THEN 2 ELSE 1,
          draws |-> 1,
          uploads |-> IF rec.texture.kind = "alpha" THEN 1 ELSE 0,
          empties |-> IF rec.texture.kind = "empty" THEN 1 ELSE 0,
          rasterized |-> <<key>>] :
            <<g, rec, bb>> \in
                {<<h, RecordMemo[f, h, key[1]],
                   UnwrapOrZero(PixelBoundingBox(f, h, key[1]))>> :
                    h \in {ResolveGlyph(f, ch)}}} : TRUE

VacantPanicAfterInsert(f, d, key, ch) ==
    CHOOSE r \in
        {[data |-> Insert(d, key, [offset |-> rec.offset, size |-> rec.size,
                                   texture |-> TextureEmpty]),
          result |-> <<>>, hit |-> FALSE,
          glyph |-> g, bbw |-> RectWidth(bb), bbh |-> RectHeight(bb),
          glyphCalls |-> IF GlyphId(f, ch) = 0 /\ ~HasShape(f, 0) THEN 2 ELSE 1,
          draws |-> 1, uploads |-> 1, empties |-> 0,
          rasterized |-> <<key>>] :
            <<g, rec, bb>> \in
                {<<h, RecordMemo[f, h, key[1]],
                   UnwrapOrZero(PixelBoundingBox(f, h, key[1]))>> :
                    h \in {ResolveGlyph(f, ch)}}} : TRUE

\* l.121-166 when Texture::from_memory_alpha returns Err: the glyph has been
\* rasterized, unwrap (l.165) panics while the argument of v.insert is still
\* being evaluated, so nothing is inserted and nothing is returned
VacantPanic(f, d, key, ch) ==
    CHOOSE r \in
        {[data |-> d, result |-> <<>>, hit |-> FALSE,
          glyph |-> g, bbw |-> RectWidth(bb), bbh |-> RectHeight(bb),
          glyphCalls |-> IF GlyphId(f, ch) = 0 /\ ~HasShape(f, 0) THEN 2 ELSE 1,
          draws |-> 1, uploads |-> 1, empties |-> 0,
          rasterized |-> <<key>>] :
            <<g, bb>> \in
                {<<h, UnwrapOrZero(PixelBoundingBox(f, h, key[1]))>> :
                    h \in {ResolveGlyph(f, ch)}}} : TRUE

characterAlwaysVacant(f, d, size, ch) == Vacant(f, d, CacheKey(size, ch), ch)

\* l.103-175
character(f, d, size, ch) ==
    IF CacheKey(size, ch) \in DOMAIN d
    THEN Occupied(f, d, CacheKey(size, ch), ch)
    ELSE Vacant(f, d, CacheKey(size, ch), ch)

\* l.86-96: Option<Character>, <<>> is None
opt_character(d, size, ch) ==
    IF <<size, ch>> \in DOMAIN d THEN <<d[<<size, ch>>]>> ELSE <<>>

\* the rasterizations of one call added to the log
Logged(log, keys) ==
    IF keys = <<>> THEN log
    ELSE IF keys[1] \in DOMAIN log THEN [log EXCEPT ![keys[1]] = @ + 1]
    ELSE log @@ (keys[1] :> 1)

\* l.76: one pass of the loop body, on the cache and the call log so far
PreloadStep(f, st, size, ch) ==
    CHOOSE r \in
        {[data |-> c.data,
          log |-> Logged(st.log, c.rasterized),
          glyphCalls |-> st.glyphCalls + c.glyphCalls,
          draws |-> st.draws + c.draws,
          uploads |-> st.uploads + c.uploads,
          empties |-> st.empties + c.empties] :
            c \in {character(f, st.data, size, ch)}} : TRUE

\* l.75-77: the loop over chars[lo..hi], in order.  The range is run as its
\* first half followed by its second half on what the first half left,
\* which keeps the evaluation shallow.
RECURSIVE preload_range(_, _, _, _, _, _)
preload_range(f, st, size, chars, lo, hi) ==
    IF lo > hi THEN st
    ELSE IF lo = hi THEN PreloadStep(f, st, size, chars[lo])
    ELSE CHOOSE r \in
            {preload_range(f, a, size, chars, (lo + hi) \div 2 + 1, hi) :
                a \in {preload_range(f, st, size, chars, lo, (lo + hi) \div 2)}} : TRUE

\* l.72-78: character(size, ch) for each ch of the iterator, results dropped
preload_chars(f, d, log, size, chars) ==
    preload_range(f, [data |-> d, log |-> log, glyphCalls |-> 0, draws |-> 0,
                      uploads |-> 0, empties |-> 0],
                  size, chars, 1, Len(chars))

PrintableAsciiInclusive == [i \in 1..(ASCII_END - ASCII_FIRST + 1) |-> ASCII_FIRST + i - 1]

\* l.83: (0x20u8..0x7F).map(|ch| ch as char)
PrintableAscii == [i \in 1..(ASCII_END - ASCII_FIRST) |-> ASCII_FIRST + i - 1]

\* l.81-84
preload_printable_ascii(f, d, log, size) ==
    preload_chars(f, d, log, size, PrintableAscii)

\* ------------------------------------------------------------ the state
\* font       the font handed to from_font
\* data       GlyphCache::data
\* requested  the (size, ch) arguments `character` has been called with
\* rasterLog  how often each key has been rasterized
\* last       the last call: its arguments, what it returned, what it called,
\*            and whether it returned Ok ("ok"), returned Err ("err") or
\*            panicked ("panic"); "none" as long as no constructor has run
\* nops       the number of calls made so far
NoCall ==
    [op |-> "from_font", outcome |-> "ok", source |-> "none",
     size |-> 0, ch |-> 0, chars |-> <<>>, first |-> FALSE,
     result |-> <<>>, hit |-> FALSE, glyph |-> -1, bbw |-> -1, bbh |-> -1,
     glyphCalls |-> 0, draws |-> 0, uploads |-> 0, empties |-> 0]

\* l.37-44: from_font, an empty map
Init ==
    /\ font \in Fonts
    /\ data = EmptyMap
    /\ requested = {}
    /\ rasterLog = <<>>
    /\ last = NoCall
    /\ nops = 0

\* there is a cache to call: a constructor has returned Ok, and no call
\* has panicked since
Running == last.outcome = "ok"

\* self.character(size, ch)
Character(size, ch) ==
    /\ Running
    /\ nops < MaxOps
    /\ \E c \in {character(font, data, size, ch)} :
           /\ data' = c.data
           /\ rasterLog' = Logged(rasterLog, c.rasterized)
           /\ last' = [op |-> "character", outcome |-> "ok", source |-> "none",
                       size |-> size, ch |-> ch,
                       chars |-> <<>>, first |-> <<size, ch>> \notin requested,
                       result |-> <<c.result>>, hit |-> c.hit, glyph |-> c.glyph,
                       bbw |-> c.bbw, bbh |-> c.bbh,
                       glyphCalls |-> c.glyphCalls, draws |-> c.draws,
                       uploads |-> c.uploads, empties |-> c.empties]
    /\ requested' = requested \cup {<<size, ch>>}
    /\ nops' = nops + 1
    /\ UNCHANGED font

\* self.character(size, ch) on a vacant key, the texture sink failing
CharacterSinkFails(size, ch) ==
    /\ Running
    /\ nops < MaxOps
    /\ CacheKey(size, ch) \notin DOMAIN data
    /\ \E c \in {VacantPanic(font, data, CacheKey(size, ch), ch)} :
           /\ data' = c.data
           /\ rasterLog' = Logged(rasterLog, c.rasterized)
           /\ last' = [op |-> "character", outcome |-> "panic", source |-> "none",
                       size |-> size, ch |-> ch,
                       chars |-> <<>>, first |-> <<size, ch>> \notin requested,
                       result |-> c.result, hit |-> c.hit, glyph |-> c.glyph,
                       bbw |-> c.bbw, bbh |-> c.bbh,
                       glyphCalls |-> c.glyphCalls, draws |-> c.draws,
                       uploads |-> c.uploads, empties |-> c.empties]
    /\ requested' = requested \cup {<<size, ch>>}
    /\ nops' = nops + 1
    /\ UNCHANGED font

OptCharacterPopulating(size, ch) ==
    /\ Running
    /\ nops < MaxOps
    /\ \E c \in {character(font, data, size, ch)} :
           /\ data' = c.data
           /\ last' = [NoCall EXCEPT !.op = "opt_character", !.size = size,
                                     !.ch = ch, !.result = <<c.result>>,
                                     !.glyphCalls = c.glyphCalls,
                                     !.draws = c.draws, !.uploads = c.uploads]
    /\ nops' = nops + 1
    /\ UNCHANGED <<font, requested, rasterLog>>

\* self.opt_character(size, ch)
OptCharacter(size, ch) ==
    /\ Running
    /\ nops < MaxOps
    /\ last' = [NoCall EXCEPT !.op = "opt_character", !.size = size, !.ch = ch,
                              !.result = opt_character(data, size, ch),
                              !.hit = opt_character(data, size, ch) # <<>>]
    /\ nops' = nops + 1
    /\ UNCHANGED <<font, data, requested, rasterLog>>

\* self.preload_chars(size, chars)
PreloadChars(size, chars) ==
    /\ Running
    /\ nops < MaxOps
    /\ \E r \in {preload_chars(font, data, rasterLog, size, chars)} :
           /\ data' = r.data
           /\ rasterLog' = r.log
           /\ last' = [NoCall EXCEPT !.op = "preload_chars", !.size = size,
                                     !.chars = chars,
                                     !.glyphCalls = r.glyphCalls,
                                     !.draws = r.draws, !.uploads = r.uploads,
                                     !.empties = r.empties]
    /\ requested' = requested \cup {<<size, chars[i]>> : i \in 1..Len(chars)}
    /\ nops' = nops + 1
    /\ UNCHANGED font

\* self.preload_printable_ascii(size)
PreloadPrintableAscii(size) ==
    /\ Running
    /\ nops < MaxOps
    /\ \E r \in {preload_printable_ascii(font, data, rasterLog, size)} :
           /\ data' = r.data
           /\ rasterLog' = r.log
           /\ last' = [NoCall EXCEPT !.op = "preload_printable_ascii",
                                     !.size = size,
                                     !.glyphCalls = r.glyphCalls,
                                     !.draws = r.draws, !.uploads = r.uploads,
                                     !.empties = r.empties]
    /\ requested' = requested \cup {<<size, ch>> : ch \in Printable}
    /\ nops' = nops + 1
    /\ UNCHANGED font

Next ==
    \/ \E size \in Points, ch \in CharInputs : Character(size, ch)
    \/ \E size \in Points, ch \in CharInputs : CharacterSinkFails(size, ch)
    \/ \E size \in Points, ch \in CharInputs : OptCharacter(size, ch)
    \/ \E size \in Points, chars \in PreloadInputs : PreloadChars(size, chars)
    \/ \E size \in AsciiSizes : PreloadPrintableAscii(size)

Spec == Init /\ [][Next]_vars

\* -------------------------------------------------------- construction
\* what a constructor is given: the font data is not a font collection
\* ("garbage"), is a collection into_font rejects ("no_font"), or is the
\* font asset `font` ("font"); a path may also name a file that cannot be
\* opened ("missing") or whose read fails ("unreadable")
FontBytes == {"garbage", "no_font", "font"}
Files == {"missing", "unreadable"} \cup FontBytes

from_bytesPropagating(bytes) ==
    IF bytes \in {"garbage", "no_font"} THEN "err" ELSE "ok"

\* l.65-69: FontCollection::from_bytes(font).unwrap(), into_font().unwrap(),
\* Ok(Self::from_font(..))
from_bytes(bytes) ==
    IF bytes = "garbage" THEN "panic"
    ELSE IF bytes = "no_font" THEN "panic"
    ELSE "ok"

newPropagatingParse(file) ==
    IF file \in {"missing", "unreadable", "garbage", "no_font"} THEN "err" ELSE "ok"

\* l.47-62: File::open(font)?, read_to_end(..)?, then the two unwraps, Ok(..)
new(file) ==
    IF file = "missing" THEN "err"
    ELSE IF file = "unreadable" THEN "err"
    ELSE IF file = "garbage" THEN "panic"
    ELSE IF file = "no_font" THEN "panic"
    ELSE "ok"

\* before any constructor has run: `font` is the font asset at hand
InitNew ==
    /\ font \in Fonts
    /\ data = EmptyMap
    /\ requested = {}
    /\ rasterLog = <<>>
    /\ last = [NoCall EXCEPT !.op = "start", !.outcome = "none"]
    /\ nops = 0

\* GlyphCache::new(path, settings), `file` being what the path leads to
New(file) ==
    /\ last.op = "start"
    /\ last' = [NoCall EXCEPT !.op = "new", !.source = file, !.outcome = new(file)]
    /\ data' = EmptyMap
    /\ UNCHANGED <<font, requested, rasterLog, nops>>

\* GlyphCache::from_bytes(bytes, settings)
FromBytes(bytes) ==
    /\ last.op = "start"
    /\ last' = [NoCall EXCEPT !.op = "from_bytes", !.source = bytes,
                              !.outcome = from_bytes(bytes)]
    /\ data' = EmptyMap
    /\ UNCHANGED <<font, requested, rasterLog, nops>>

\* GlyphCache::from_font(font, settings)
FromFont ==
    /\ last.op = "start"
    /\ last' = NoCall
    /\ data' = EmptyMap
    /\ UNCHANGED <<font, requested, rasterLog, nops>>

NextNew ==
    \/ \E file \in Files : New(file)
    \/ \E bytes \in FontBytes : FromBytes(bytes)
    \/ FromFont
    \/ Next

SpecNew == InitNew /\ [][NextNew]_vars

\* ------------------------------- the bitmap of one miss, in 32-bit words
\* l.143-151 with the integer types of the code: the bordered width and
\* height are i32, their product is an i32 cast to usize, the index is
\* computed in u32.  A u32 is written <<hi, lo>>, 16 bits each.  With
\* overflow checks (debug builds) an overflowing operation panics, without
\* them (release builds) it wraps.
Word(n) == <<n \div 2^16, n % 2^16>>

\* a * b mod 2^16 and the whole of a * b, for a, b < 2^16
MulLo16(a, b) == ((a % 256) * b + (((a \div 256) * b) % 256) * 256) % 2^16
Mul16(a, b) ==
    LET t0 == (a % 256) * b
        t1 == (a \div 256) * b
        s  == t0 + (t1 % 256) * 256
    IN  <<t1 \div 256 + s \div 2^16, s % 2^16>>

\* u32::wrapping_mul, u32::wrapping_add
WrappingMul(a, b) ==
    <<(Mul16(a[2], b[2])[1] + MulLo16(a[1], b[2]) + MulLo16(a[2], b[1])) % 2^16,
      Mul16(a[2], b[2])[2]>>
WrappingAdd(a, b) ==
    <<(a[1] + b[1] + (a[2] + b[2]) \div 2^16) % 2^16, (a[2] + b[2]) % 2^16>>

\* a * b does not fit an i32 (a, b >= 0)
MulOverflowsI32(a, b) == b > 0 /\ a > I32_MAX \div b

\* the pixel bounding boxes <<width, height>> of the glyphs tried, and the
\* pixels glyph.draw reports for a box: all of them for a small box, the
\* corners and the centre for a large one
BigBoxes == {<<49998, 49998>>, <<65534, 65534>>, <<69998, 69998>>}
Boxes == ((0..MaxBox) \X (0..MaxBox)) \cup BigBoxes
Pixels(w, h) ==
    IF <<w, h>> \in BigBoxes
    THEN {<<0, 0>>, <<w - 1, 0>>, <<0, h - 1>>, <<w - 1, h - 1>>, <<w \div 2, h \div 2>>}
    ELSE (0..(w - 1)) \X (0..(h - 1))

\* l.147: image_buffer.resize((pixel_bb_width * pixel_bb_height) as usize, 0).
\* <<n>> is the length of the buffer, <<>> a panic: of the multiplication
\* under overflow checks, else of resize when the wrapped product is negative
\* and its cast to usize exceeds every possible capacity.
BufferLen(bbw, bbh, checks) ==
    IF ~MulOverflowsI32(bbw, bbh) THEN <<bbw * bbh>>
    ELSE IF checks THEN <<>>
    ELSE LET r == WrappingMul(Word(bbw), Word(bbh))
         IN  IF r[1] >= 2^15 THEN <<>> ELSE <<r[1] * 2^16 + r[2]>>

\* l.149: ((x + 1) + (y + 1) * (pixel_bb_width as u32)) as usize, which is
\* DrawPos(x, y, bbw) as long as nothing wraps
DrawPosU32(x, y, bbw) ==
    WrappingAdd(Word(x + 1), WrappingMul(Word(y + 1), Word(bbw)))

\* l.150: image_buffer[pos] is bounds-checked
InBounds(pos, len) == pos[1] < 2^15 /\ pos[1] * 2^16 + pos[2] < len

\* a miss has reached l.143 with a pixel bounding box of w x h, in a build
\* with or without overflow checks
InitDraw ==
    /\ font = [notdefShape |-> FALSE, hasRepl |-> TRUE]
    /\ data = EmptyMap
    /\ requested = {}
    /\ rasterLog = <<>>
    /\ nops = 0
    /\ \E box \in Boxes, checks \in BOOLEAN :
          last = [op |-> "bounding_box", outcome |-> "ok",
                  w |-> box[1], h |-> box[2], checks |-> checks,
                  len |-> 0, x |-> 0, y |-> 0, pos |-> <<0, 0>>]

\* l.143-147: the buffer is allocated
ResizeBuffer ==
    /\ last.op = "bounding_box"
    /\ \E len \in {BufferLen(last.w + 2, last.h + 2, last.checks)} :
          last' = [last EXCEPT !.op = "resize",
                               !.outcome = IF len = <<>> THEN "panic" ELSE "ok",
                               !.len = IF len = <<>> THEN 0 ELSE len[1]]
    /\ UNCHANGED <<font, data, requested, rasterLog, nops>>

\* l.148-151: glyph.draw calls the closure for the pixel (x, y); the write
\* panics when pos is not an index of the buffer
DrawCallback(x, y) ==
    /\ last.op \in {"resize", "draw"}
    /\ last.outcome = "ok"
    /\ \E pos \in {DrawPosU32(x, y, last.w + 2)} :
          last' = [last EXCEPT !.op = "draw", !.x = x, !.y = y, !.pos = pos,
                               !.outcome = IF InBounds(pos, last.len)
                                           THEN "ok" ELSE "panic"]
    /\ UNCHANGED <<font, data, requested, rasterLog, nops>>

NextDraw ==
    \/ ResizeBuffer
    \/ \E px \in Pixels(last.w, last.h) : DrawCallback(px[1], px[2])

SpecDraw == InitDraw /\ [][NextDraw]_vars

\* --------------------------------------------------------------- claims
NoCollaboratorCall(c) ==
    c.glyphCalls = 0 /\ c.draws = 0 /\ c.uploads = 0 /\ c.empties = 0
Miss == last.op = "character" /\ last.outcome = "ok" /\ ~last.hit
Hit == last.op = "character" /\ last.hit

\* C1: opt_character(s, c) is None as long as character(s, c) has not been
\* called, and right after character(s, c) it is Some of the record that
\* call returned.
C1_PeekFollowsPopulate ==
    /\ last.op = "character" =>
          opt_character(data, last.size, last.ch) = last.result
    /\ (last.op = "opt_character" /\ <<last.size, last.ch>> \notin requested) =>
          last.result = <<>>

\* C2: after preload_printable_ascii(size), opt_character(size, ch) is Some
\* for each of the 95 characters ' '..'~' and None for every other character
\* that was not requested separately.
C2_AsciiPreloadComplete ==
    last.op = "preload_printable_ascii" =>
        /\ Cardinality(Printable) = 95
        /\ \A ch \in Printable : opt_character(data, last.size, ch) # <<>>
        /\ \A ch \in KeyChars \ Printable :
              <<last.size, ch>> \notin requested =>
                  opt_character(data, last.size, ch) = <<>>

\* C3: a miss for a glyph whose pixel bounding box has width 0 or height 0
\* stores Texture::empty and uploads nothing.
C3_ZeroAreaIsEmptyTexture ==
    (Miss /\ (last.bbw = 0 \/ last.bbh = 0)) =>
        /\ last.result[1].texture = TextureEmpty
        /\ last.uploads = 0

\* C4: a call of character with the arguments of the call just before it
\* returns the same record and calls neither the font nor the texture sink,
\* and no key is ever rasterized twice.
C4_Memoized ==
    /\ [](\A k \in DOMAIN rasterLog : rasterLog[k] <= 1)
    /\ [][(/\ last.op = "character"
           /\ last'.op = "character"
           /\ last'.size = last.size
           /\ last'.ch = last.ch)
          => (last'.result = last.result /\ NoCollaboratorCall(last'))]_vars

C4_Witness == Hit /\ ~last.first /\ nops = 2

\* C5: an entry of the map is never removed or changed by a later call.
C5_AppendOnly ==
    [][\A k \in DOMAIN data : k \in DOMAIN data' /\ data'[k] = data[k]]_vars

C5_Witness ==
    /\ nops = 2
    /\ last.op \in {"character", "preload_chars", "preload_printable_ascii"}
    /\ last.draws > 0
    /\ Cardinality(DOMAIN data) > last.draws

\* C6: character(p2, c) right after character(p1, c), where p1 and p2
\* convert to the same pixel size, is a hit that returns the same record and
\* leaves the map as it was.
C6_KeyCollapsing ==
    [][(/\ last.op = "character"
        /\ last'.op = "character"
        /\ last'.ch = last.ch
        /\ PointToPixel(last'.size) = PointToPixel(last.size))
       => (last'.hit /\ last'.result = last.result /\ data' = data)]_vars

C6_Witness ==
    /\ Hit
    /\ last.first
    /\ \E p \in Points \ {last.size} :
          /\ <<p, last.ch>> \in requested
          /\ PointToPixel(p) = PointToPixel(last.size)
    /\ Cardinality(DOMAIN data) = 1

\* C7: a character the font maps to glyph 0 without outline gets, on a miss,
\* the glyph of U+FFFD, and its record equals the one stored for U+FFFD at
\* the same pixel size; any other character gets its own glyph.
C7_FallbackSubstitution ==
    /\ Miss =>
          IF GlyphId(font, last.ch) = 0 /\ ~HasShape(font, 0)
          THEN last.glyph = GlyphId(font, REPLACEMENT)
          ELSE last.glyph = GlyphId(font, last.ch)
    /\ \A k \in DOMAIN data :
          (/\ GlyphId(font, k[2]) = 0
           /\ ~HasShape(font, 0)
           /\ <<k[1], REPLACEMENT>> \in DOMAIN data)
          => data[k] = data[<<k[1], REPLACEMENT>>]

C7_Witness ==
    /\ font.hasRepl
    /\ ~font.notdefShape
    /\ \E px \in KeySizes :
          /\ <<px, UNMAPPED>> \in DOMAIN data
          /\ <<px, REPLACEMENT>> \in DOMAIN data
          /\ data[<<px, REPLACEMENT>>].texture.width > 2

\* C8: the bitmap uploaded on a miss is (w + 2) x (h + 2) for a pixel
\* bounding box of w x h, and its outermost ring of pixels is zero.
OnRing(i, w, h) ==
    \/ (i - 1) % w \in {0, w - 1}
    \/ (i - 1) \div w \in {0, h - 1}

C8_Border ==
    /\ (Miss /\ last.result[1].texture.kind = "alpha") =>
          /\ last.result[1].texture.width = last.bbw + 2
          /\ last.result[1].texture.height = last.bbh + 2
    /\ \A k \in DOMAIN data : \A t \in {data[k].texture} :
          t.kind = "alpha" =>
              /\ Len(t.memory) = t.width * t.height
              /\ \A i \in 1..Len(t.memory) :
                    OnRing(i, t.width, t.height) => t.memory[i] = 0

C8_Witness ==
    /\ Miss
    /\ last.bbw > 0
    /\ last.bbh > 0
    /\ \E i \in 1..Len(last.result[1].texture.memory) :
          last.result[1].texture.memory[i] > 0

\* C9: a miss of character(p, c) adds the one key (round(p * 1.333), c), c
\* being the character asked for, and no other; 12 points are 16 pixels.
C9_MissInsertsOneKey ==
    /\ PointToPixel(12) = 16
    /\ [][(last'.op = "character" /\ last'.outcome = "ok" /\ ~last'.hit) =>
             /\ DOMAIN data' =
                   DOMAIN data \cup {<<PointToPixel(last'.size), last'.ch>>}
             /\ <<PointToPixel(last'.size), last'.ch>> \notin DOMAIN data]_vars

C9_Witness ==
    /\ Miss
    /\ last.ch = UNMAPPED
    /\ last.glyph = GlyphId(font, REPLACEMENT)
    /\ last.glyph # 0
    /\ PointToPixel(last.size) # last.size
    /\ Cardinality(DOMAIN data) = 2

\* C10: opt_character leaves the map as it is, hit or miss, and calls
\* neither the font nor the texture sink.
C10_PeekIsPure ==
    [][last'.op = "opt_character" =>
          /\ data' = data
          /\ rasterLog' = rasterLog
          /\ NoCollaboratorCall(last')]_vars

C10_Witness ==
    /\ last.op = "opt_character"
    /\ last.hit
    /\ last.result # <<>>

\* C11: a call of character that hits leaves the map as it was, key set and
\* records, calls neither the font nor the texture sink, and returns the
\* record stored under the converted key.
C11_HitFrame ==
    [][(last'.op = "character" /\ last'.hit) =>
          /\ data' = data
          /\ rasterLog' = rasterLog
          /\ NoCollaboratorCall(last')
          /\ <<PointToPixel(last'.size), last'.ch>> \in DOMAIN data
          /\ last'.result = <<data[<<PointToPixel(last'.size), last'.ch>>]>>]_vars

C11_Witness ==
    /\ Hit
    /\ Cardinality(DOMAIN data) > 1
    /\ last.result[1].texture.kind = "alpha"

\* C12: preload_chars(size, chars) leaves the map that character(size, ch),
\* called for each ch of chars in order, leaves; preload_printable_ascii(size)
\* adds one entry for each of the 95 characters 0x20..0x7E, the record
\* character(size, ch) returns for it, all under the pixel size
\* round(size * 1.333): on an empty cache it leaves exactly these 95 entries.
RECURSIVE CharacterCalls(_, _, _, _)
CharacterCalls(f, d, size, chars) ==
    IF chars = <<>> THEN d
    ELSE CharacterCalls(f, character(f, d, size, Head(chars)).data, size, Tail(chars))

C12_PreloadEquivalence ==
    [][/\ last'.op = "preload_chars" =>
             data' = CharacterCalls(font, data, last'.size, last'.chars)
       /\ last'.op = "preload_printable_ascii" =>
             /\ data' = data @@
                   [k \in {<<PointToPixel(last'.size), ch>> : ch \in 32..126} |->
                       character(font, EmptyMap, last'.size, k[2]).result]
             /\ data = EmptyMap =>
                   /\ Cardinality(DOMAIN data') = 95
                   /\ \A k \in DOMAIN data' : k[1] = PointToPixel(last'.size)]_vars

C12_Witness ==
    /\ last.op = "preload_printable_ascii"
    /\ nops = 1
    /\ Cardinality(DOMAIN data) = 95
    /\ \A k \in DOMAIN data : k[1] = PointToPixel(last.size) /\ k[1] # last.size

\* C13: on a miss, every pixel (x, y) the rasterizer reports with coverage
\* v = k/CovDen is stored as the byte round(255 * v) at index
\* (x + 1) + (y + 1) * (w + 2) of the bitmap, w the pixel bounding box width.
RoundedByte(k) == (2 * 255 * k + CovDen) \div (2 * CovDen)

C13_CoverageRounded ==
    Miss =>
        \A c \in DrawCalls(font, last.glyph, PointToPixel(last.size)) :
            last.result[1].texture.memory[
                (c[1] + 1) + (c[2] + 1) * (last.bbw + 2) + 1] = RoundedByte(c[3])

\* C14: the record stored on a miss has offset (exact_bbox.min.x - 1,
\* -pixel_bbox.min.y + 1) and advance (advance_width, 0), a missing exact or
\* pixel bounding box counting as the all-zero box; every record of the map
\* has vertical advance 0.
C14_OffsetAdvance ==
    /\ Miss =>
          LET px == PointToPixel(last.size)
              exact == ExactBoundingBox(font, last.glyph, px)
              pixel == PixelBoundingBox(font, last.glyph, px)
              min_x == IF exact = <<>> THEN 0 ELSE exact[1].min.x
              min_y == IF pixel = <<>> THEN 0 ELSE pixel[1].min.y
          IN  /\ last.result[1].offset = <<min_x - ScalarDen, (1 - min_y) * ScalarDen>>
              /\ last.result[1].size = <<AdvanceWidth(last.glyph, px), 0>>
    /\ \A k \in DOMAIN data : data[k].size[2] = 0

C14_Witness ==
    /\ Miss
    /\ ExactBoundingBox(font, last.glyph, PointToPixel(last.size)) = <<>>
    /\ last.result[1].offset = <<-ScalarDen, ScalarDen>>
    /\ \E k \in DOMAIN data :
          /\ data[k].offset[1] \notin {-ScalarDen, 0}
          /\ data[k].offset[2] > ScalarDen
          /\ data[k].size[1] > 0

\* C15: character returns a complete record, the one now stored under its
\* key, or it panics; it never returns an error value.  When the texture sink
\* fails during a miss the call panics, and at that point the map is as it
\* was before the call, without an entry for the requested key.
C15_AbortBeforeInsert ==
    /\ [](last.op = "character" =>
            /\ last.outcome \in {"ok", "panic"}
            /\ last.outcome = "ok" =>
                  /\ Len(last.result) = 1
                  /\ DOMAIN last.result[1] = {"offset", "size", "texture"}
                  /\ last.result[1].texture.kind \in {"alpha", "empty"}
                  /\ last.result[1] = data[<<PointToPixel(last.size), last.ch>>]
            /\ last.outcome = "panic" => last.result = <<>>)
    /\ [][(last'.op = "character" /\ last'.uploads = 1 /\ last'.outcome = "panic") =>
             /\ data' = data
             /\ <<PointToPixel(last'.size), last'.ch>> \notin DOMAIN data']_vars

C15_Witness ==
    /\ last.op = "character"
    /\ last.outcome = "panic"
    /\ last.uploads = 1
    /\ last.draws = 1
    /\ nops = 2
    /\ Cardinality(DOMAIN data) = 1

\* C16: GlyphCache::new returns Err, and no cache, exactly when the file
\* cannot be opened or cannot be read; on font data that does not parse or
\* holds no usable font it panics instead of returning Err; from_bytes never
\* returns Err.  Without a cache no operation follows.
C16_ConstructorErrors ==
    /\ last.op = "new" =>
          /\ last.outcome = "err" <=> last.source \in {"missing", "unreadable"}
          /\ last.outcome = "panic" <=> last.source \in {"garbage", "no_font"}
          /\ last.outcome = "ok" <=> last.source = "font"
    /\ last.op = "from_bytes" =>
          /\ last.outcome # "err"
          /\ last.outcome = "panic" <=> last.source \in {"garbage", "no_font"}
          /\ last.outcome = "ok" <=> last.source = "font"
    /\ (last.op \in {"new", "from_bytes"} /\ last.outcome # "ok") =>
          (nops = 0 /\ data = EmptyMap)
    /\ nops > 0 => last.op \notin {"start", "new", "from_bytes", "from_font"}

C16_Witness ==
    /\ last.op = "new"
    /\ last.source = "unreadable"
    /\ last.outcome = "err"

\* C17: every write of the draw callback is inside the bitmap buffer: for a
\* pixel bounding box of w x h and a reported pixel 0 <= x < w, 0 <= y < h
\* the index (x + 1) + (y + 1) * (w + 2) is below the length of the buffer.
C17_WritesInBounds ==
    (/\ last.op = "draw"
     /\ 0 <= last.x /\ last.x < last.w
     /\ 0 <= last.y /\ last.y < last.h)
    => InBounds(last.pos, last.len)

\* C18 as claimed: the conversion is strictly increasing, so that distinct
\* point sizes never share a pixel size and the map has one entry for each
\* distinct (point size, character) pair requested.
C18_StrictlyIncreasing ==
    /\ \A r1 \in requested, r2 \in requested :
          r1[1] < r2[1] => PointToPixel(r1[1]) < PointToPixel(r2[1])
    /\ last.outcome = "ok" => Cardinality(DOMAIN data) = Cardinality(requested)

\* C18, amended: the conversion never decreases, and it is strictly
\* increasing up to 12586060 points; 12586060 and 12586061 points are both
\* 16777218 pixels.  The map has one entry for each distinct
\* (round(p * 1.333), character) pair requested.
ConvBases == {1, 2^10, 2^20, 2^23, 12586052, 2^24, 2^30}
ConvSamples == UNION {b..(b + ConvSpan) : b \in ConvBases}

C18_MonotoneConversion ==
    /\ nops = 0 =>
          /\ \A p \in ConvSamples : (p + 1) \in ConvSamples =>
                /\ PointToPixel(p) <= PointToPixel(p + 1)
                /\ (p + 1) <= 12586060 => PointToPixel(p) < PointToPixel(p + 1)
          /\ \A b1 \in ConvBases, b2 \in ConvBases :
                b1 + ConvSpan < b2 => PointToPixel(b1 + ConvSpan) <= PointToPixel(b2)
          /\ PointToPixel(12586060) = 16777218
          /\ PointToPixel(12586061) = 16777218
    /\ last.outcome = "ok" =>
          Cardinality(DOMAIN data) =
              Cardinality({<<PointToPixel(r[1]), r[2]>> : r \in requested})

C18_Witness ==
    /\ last.outcome = "ok"
    /\ Cardinality(DOMAIN data) >= 2
    /\ Cardinality(requested) > Cardinality(DOMAIN data)
    /\ \E r1 \in requested, r2 \in requested :
          /\ r1[1] < r2[1]
          /\ r1[2] = r2[2]
          /\ PointToPixel(r1[1]) = PointToPixel(r2[1])

\* C19: a miss that falls back to the glyph of U+FFFD stores it under the
\* requested character only: the key (round(s * 1.333), U+FFFD) is in the
\* map after the call exactly if it was before, and every unmapped character
\* gets its own rasterization and its own texture upload, also when another
\* unmapped character of the same size is in the map already.
FallbackTaken(f, ch) == GlyphId(f, ch) = 0 /\ ~HasShape(f, 0)
ReplacementKey(size) == <<PointToPixel(size), REPLACEMENT>>

C19_FallbackNotShared ==
    [][/\ (/\ last'.op = "character"
           /\ last'.outcome = "ok"
           /\ last'.ch # REPLACEMENT
           /\ FallbackTaken(font, last'.ch)
           /\ <<PointToPixel(last'.size), last'.ch>> \notin DOMAIN data) =>
             /\ ~last'.hit
             /\ last'.glyph = GlyphId(font, REPLACEMENT)
             /\ last'.draws = 1
             /\ last'.uploads = 1
             /\ ReplacementKey(last'.size) \in DOMAIN data'
                   <=> ReplacementKey(last'.size) \in DOMAIN data
       /\ (/\ last'.op = "preload_chars"
           /\ \A i \in DOMAIN last'.chars : last'.chars[i] # REPLACEMENT) =>
             /\ last'.draws = Cardinality(DOMAIN data' \ DOMAIN data)
             /\ last'.uploads = last'.draws
             /\ ReplacementKey(last'.size) \in DOMAIN data'
                   <=> ReplacementKey(last'.size) \in DOMAIN data]_vars

C19_Witness ==
    /\ last.op = "preload_chars"
    /\ font.hasRepl
    /\ FallbackTaken(font, UNMAPPED)
    /\ FallbackTaken(font, ASCII_END)
    /\ ReplacementKey(last.size) \notin DOMAIN data
    /\ <<PointToPixel(last.size), UNMAPPED>> \in DOMAIN data
    /\ <<PointToPixel(last.size), ASCII_END>> \in DOMAIN data
    /\ data[<<PointToPixel(last.size), UNMAPPED>>]
          = data[<<PointToPixel(last.size), ASCII_END>>]
    /\ data[<<PointToPixel(last.size), UNMAPPED>>].texture.width > 2
    /\ last.draws = 3
    /\ last.uploads = 3

====
